---- MODULE Spec2Model ----
(***************************************************************************)
(* r2-image-worker: an HTTP worker that uploads images into an R2 bucket   *)
(* (PUT /upload) and serves them back (GET|HEAD /:key).                    *)
(*                                                                         *)
(* The repository holds three versions of the worker:                      *)
(*   "index"  : src/src/index.ts lines 1-287                               *)
(*   "legacy" : src/src/index.ts lines 289-523 (own edge cache, no Range)  *)
(*   "debug"  : src/unnamed/part_000 (upload handler instrumented)         *)
(* A deployment runs one of them; `variant` says which.                    *)
(*                                                                         *)
(* Strings the code takes apart (file names, keys, header values) are      *)
(* sequences of one-character strings, except that the literal "bytes="    *)
(* of a Range header is one element.  Strings the code only passes on or   *)
(* compares with a constant (content types, option values) are TLA+        *)
(* strings.  An optional value is a sequence of length 0 (undefined) or 1. *)
(***************************************************************************)
EXTENDS Integers, Sequences, FiniteSets, TLC

VARIABLES
    variant,    \* which version of the worker is deployed
    store,      \* the R2 bucket: key -> stored object
    cache,      \* legacy: caches.default, url -> cached response
    waiting,    \* legacy: cache writes handed to executionCtx.waitUntil
    now,        \* Date.now()
    phase,      \* "idle" | "pending" (request received) | "done" (response built)
    req,        \* the request being handled
    resp,       \* the response to it
    call        \* the bucket call the handler made for it

vars == <<variant, store, cache, waiting, now, phase, req, resp, call>>

----------------------------------------------------------------------------
(* Bounds of the model *)

\* longest uploaded file, in bytes
MaxBody == 2
\* largest value of Date.now()
MaxClock == 1
\* longest Range header, in elements ("bytes=" counts as one)
MaxRange == 4
\* most objects the bucket holds
MaxObjects == 1
\* most bytes the bucket's body stream yields per read
MaxChunk == 2
\* most cache writes waiting at a time
MaxWaiting == 1

----------------------------------------------------------------------------
(* Optional values and strings *)

None == <<>>
Some(x) == <<x>>
\* JavaScript truthiness of an optional string kept as a sequence of characters
Truthy(o) == o # None /\ o[1] # <<>>

Digits == <<"0", "1", "2", "3", "4", "5", "6", "7", "8", "9">>
DigitChars == {Digits[i] : i \in 1..10}
HexDigits == <<"0", "1", "2", "3", "4", "5", "6", "7", "8", "9", "a", "b", "c", "d", "e", "f">>
HexChars == {HexDigits[i] : i \in 1..16}

DigitValue(c) == CHOOSE d \in 0..9 : Digits[d + 1] = c

RECURSIVE Concat(_)
\* the concatenation of a sequence of sequences
Concat(ss) == IF ss = <<>> THEN <<>> ELSE Head(ss) \o Concat(Tail(ss))

RECURSIVE Split(_, _)
\* String.prototype.split(sep) for a one-character separator
Split(s, sep) ==
    IF \A i \in 1..Len(s) : s[i] # sep
    THEN <<s>>
    ELSE LET i == CHOOSE k \in 1..Len(s) :
                      s[k] = sep /\ \A j \in 1..(k - 1) : s[j] # sep
         IN <<SubSeq(s, 1, i - 1)>> \o Split(SubSeq(s, i + 1, Len(s)), sep)

RECURSIVE Join(_, _)
\* Array.prototype.join(sep)
Join(parts, sep) ==
    IF parts = <<>> THEN <<>>
    ELSE IF Len(parts) = 1 THEN parts[1]
    ELSE parts[1] \o sep \o Join(Tail(parts), sep)

\* Array.prototype.pop(): the last element, and what is left
Last(parts) == parts[Len(parts)]
Front(parts) == SubSeq(parts, 1, Len(parts) - 1)

\* String.prototype.includes(sub)
Includes(s, sub) ==
    \E i \in 1..(Len(s) - Len(sub) + 1) : SubSeq(s, i, i + Len(sub) - 1) = sub

\* String.prototype.substring(from, to), 0-based, to exclusive
Substring(s, from, to) ==
    SubSeq(s, from + 1, IF to < Len(s) THEN to ELSE Len(s))

RECURSIVE DecNat(_)
DecNat(n) == IF n < 10 THEN <<Digits[n + 1]>> ELSE DecNat(n \div 10) \o <<Digits[(n % 10) + 1]>>

\* template-literal formatting of an integer: `${n}`
Dec(n) == IF n < 0 THEN <<"-">> \o DecNat(0 - n) ELSE DecNat(n)

RECURSIVE ParseInt(_)
\* parseInt(s, 10) of a non-empty string of digits
ParseInt(s) ==
    IF Len(s) = 1 THEN DigitValue(s[1])
    ELSE 10 * ParseInt(Front(s)) + DigitValue(Last(s))

----------------------------------------------------------------------------
(* Digests.  The real digests are SHA-256 (hono/utils/crypto) and MD5 (R2's *)
(* etag); all the code relies on is that each is a fixed function of the    *)
(* bytes, written in hex, that tells the modelled files apart.              *)

Bytes == {0, 1}

RECURSIVE BodyCode(_)
\* a number that identifies a byte string
BodyCode(b) == IF b = <<>> THEN 0 ELSE (b[1] + 1) + 3 * BodyCode(Tail(b))

\* sha256(file): 64 hex characters
Sha256Hex(b) ==
    [i \in 1..64 |->
        HexDigits[(((IF i % 2 = 1 THEN BodyCode(b) ELSE BodyCode(b) \div 16) * 7 + 11 * i) % 16) + 1]]

\* the bucket's etag of an object: 32 hex characters
Md5Hex(b) ==
    [i \in 1..32 |->
        HexDigits[(((IF i % 2 = 1 THEN BodyCode(b) ELSE BodyCode(b) \div 16) * 5 + 3 * i) % 16) + 1]]

----------------------------------------------------------------------------
(* The R2 bucket *)

EmptyStore == [k \in {} |-> k]

\* BUCKET.put(key, file, { httpMetadata: { contentType } }) at time t
R2Put(s, key, bytes, contentType, t) ==
    [k \in DOMAIN s \cup {key} |->
        IF k = key
        THEN [body |-> bytes, contentType |-> contentType,
              etag |-> Md5Hex(bytes), uploaded |-> t]
        ELSE s[k]]

RECURSIVE Chunks(_)
\* the reads of an object's body stream
Chunks(bytes) ==
    IF Len(bytes) <= MaxChunk THEN (IF bytes = <<>> THEN <<>> ELSE <<bytes>>)
    ELSE <<SubSeq(bytes, 1, MaxChunk)>> \o Chunks(SubSeq(bytes, MaxChunk + 1, Len(bytes)))

\* the bytes a ranged read returns: from offset, length bytes or to the end
Slice(bytes, range) ==
    IF range = None THEN bytes
    ELSE LET from == range[1].offset
             to   == IF range[1].length = None THEN Len(bytes)
                     ELSE from + range[1].length[1]
         IN SubSeq(bytes, from + 1, IF to < Len(bytes) THEN to ELSE Len(bytes))

\* R2Object: the metadata head() and get() report.  size is the object's size,
\* not the size of the range read.
R2Object(o) ==
    [size |-> Len(o.body), etag |-> o.etag,
     httpEtag |-> <<"\"">> \o o.etag \o <<"\"">>,
     uploaded |-> o.uploaded, contentType |-> o.contentType,
     hasBody |-> FALSE, body |-> <<>>]

\* BUCKET.head(key): the metadata, or null
R2Head(s, key) == IF key \in DOMAIN s THEN Some(R2Object(s[key])) ELSE None

\* BUCKET.get(key, { range }): the metadata with a body stream, or null
R2Get(s, key, range) ==
    IF key \in DOMAIN s
    THEN Some([R2Object(s[key]) EXCEPT !.hasBody = TRUE,
                                       !.body = Chunks(Slice(s[key].body, range))])
    ELSE None

\* streamToArrayBuffer(stream): the reads joined into one buffer
StreamToArrayBuffer(stream) ==
    Concat(SelectSeq(stream, LAMBDA chunk : chunk # <<>>))

----------------------------------------------------------------------------
(* Responses *)

NoHeaders == [h \in {} |-> h]

NoBody == [kind |-> "none", data |-> <<>>, error |-> "", details |-> None, stack |-> None]
BytesBody(bytes) == [NoBody EXCEPT !.kind = "bytes", !.data = bytes]
TextBody(text) == [NoBody EXCEPT !.kind = "text", !.data = text]
JsonBody(error, details, stack) ==
    [NoBody EXCEPT !.kind = "json", !.error = error, !.details = details, !.stack = stack]

Response(status, headers, body) == [status |-> status, headers |-> headers, body |-> body]

\* c.json(obj, status)
Json(status, error, details, stack) ==
    Response(status, "Content-Type" :> "application/json", JsonBody(error, details, stack))

\* c.text(text, status)
Text(status, text) ==
    Response(status, "Content-Type" :> "text/plain; charset=UTF-8", TextBody(text))

NoResponse == Response(0, NoHeaders, NoBody)

Has(r, name) == name \in DOMAIN r.headers

\* app.notFound(handler), or Hono's own 404 where the version sets none
NotFound(v) ==
    IF v = "legacy" THEN Text(404, <<"404 Not Found">>)
    ELSE Json(404, "Not Found", None, None)

\* app.onError(handler), or Hono's own handler where the version sets none:
\* that one answers with the response an HTTPException carries
OnError(v, err) ==
    IF v = "legacy"
    THEN IF err.response # None THEN err.response[1]
         ELSE Text(500, <<"Internal Server Error">>)
    ELSE Json(500, "Internal Server Error", None, None)

\* what a failed call throws: an Error with a message and a stack
TypeError == [message |-> "TypeError: Cannot read properties of undefined",
              stack |-> "at index.ts", response |-> None]
StoreError == [message |-> "R2 internal error 10001", stack |-> "at R2Bucket",
               response |-> None]
ErrorMessages == {TypeError.message, StoreError.message}
ErrorStacks == {TypeError.stack, StoreError.stack}

\* the CORS headers the legacy version puts on every response
SetCorsHeaders(headers) ==
    ("Access-Control-Allow-Origin" :> "*"
     @@ "Access-Control-Allow-Methods" :> "GET, HEAD, OPTIONS, PUT"
     @@ "Access-Control-Allow-Headers" :> "Content-Type, Authorization, Range, Accept"
     @@ "Access-Control-Expose-Headers" :>
            "Content-Length, Content-Type, Content-Disposition, ETag, Last-Modified"
     @@ "Access-Control-Allow-Credentials" :> "false")
    @@ headers

----------------------------------------------------------------------------
(* Serving: pure parts *)

PNG == <<"p", "n", "g">>
SCREENSHOT == <<"s", "c", "r", "e", "e", "n", "s", "h", "o", "t">>

\* getContentType(key): the MIME type of the key's extension
MimeTypes ==
    (<<"p", "n", "g">> :> "image/png") @@ (<<"j", "p", "g">> :> "image/jpeg")
    @@ (<<"j", "p", "e", "g">> :> "image/jpeg") @@ (<<"g", "i", "f">> :> "image/gif")
    @@ (<<"w", "e", "b", "p">> :> "image/webp") @@ (<<"s", "v", "g">> :> "image/svg+xml")
    @@ (<<"i", "c", "o">> :> "image/x-icon") @@ (<<"b", "m", "p">> :> "image/bmp")
    @@ (<<"t", "i", "f", "f">> :> "image/tiff") @@ (<<"p", "d", "f">> :> "application/pdf")

\* String.prototype.toLowerCase(), over the letters the modelled keys use
LowerOf == ("P" :> "p") @@ ("N" :> "n") @@ ("G" :> "g")
ToLowerCase(s) == [i \in 1..Len(s) |-> IF s[i] \in DOMAIN LowerOf THEN LowerOf[s[i]] ELSE s[i]]

GetContentType(key) ==
    LET ext == ToLowerCase(Last(Split(key, ".")))
    IN IF ext \in DOMAIN MimeTypes THEN MimeTypes[ext] ELSE "application/octet-stream"

\* a Cache-Control value: "public, max-age=<seconds>" and, if so, ", immutable"
CacheControl(seconds, immutable) ==
    <<"public, max-age=">> \o Dec(seconds) \o (IF immutable THEN <<", immutable">> ELSE <<>>)

\* getCacheControl(key): an hour for screenshots, a year for the rest
GetCacheControl(key) ==
    IF Includes(key, SCREENSHOT \o <<"_">>) THEN CacheControl(3600, FALSE)
    ELSE CacheControl(31536000, TRUE)

\* Date.prototype.toUTCString(): an HTTP date, to the second
ToUTCString(t) == [httpDate |-> t \div 1000]

\* encodeURIComponent(s)
Unreserved ==
    DigitChars \cup {"a", "b", "c", "d", "e", "f", "g", "h", "i", "j", "k", "l", "m", "n", "o",
                     "p", "q", "r", "s", "t", "u", "v", "w", "x", "y", "z", "P", "N", "G",
                     "-", "_", ".", "!", "~", "*", "'", "(", ")"}
EncodeURIComponent(s) ==
    Concat([i \in 1..Len(s) |->
        IF s[i] \in Unreserved THEN <<s[i]>>
        ELSE IF s[i] = "/" THEN <<"%", "2", "F">>
        ELSE <<"%", "2", "0">>])

\* /iPhone|iPad|iPod|Android/i.test(userAgent): the User-Agent is a sequence of
\* product tokens
MobileTokens == {"iphone", "ipad", "ipod", "android"}
LowerToken(t) ==
    CASE t = "iPhone" -> "iphone" [] t = "iPad" -> "ipad" [] t = "iPod" -> "ipod"
      [] t = "Android" -> "android" [] OTHER -> t
IsMobile(userAgent) ==
    userAgent # None /\ \E i \in 1..Len(userAgent[1]) : LowerToken(userAgent[1][i]) \in MobileTokens

\* the end of the longest run of digits of s that starts at from (from - 1: none)
DigitRunEnd(s, from) ==
    CHOOSE j \in (from - 1)..Len(s) :
        /\ \A k \in from..j : s[k] \in DigitChars
        /\ (j = Len(s) \/ s[j + 1] \notin DigitChars)

\* range.match(/bytes=(\d+)-(\d*)/): the two groups of the leftmost match, or null
MatchesAt(s, i) ==
    /\ s[i] = "bytes="
    /\ DigitRunEnd(s, i + 1) >= i + 1
    /\ DigitRunEnd(s, i + 1) < Len(s)
    /\ s[DigitRunEnd(s, i + 1) + 1] = "-"

RangeMatch(s) ==
    IF \E i \in 1..Len(s) : MatchesAt(s, i)
    THEN LET i == CHOOSE k \in 1..Len(s) :
                      MatchesAt(s, k) /\ \A j \in 1..(k - 1) : ~MatchesAt(s, j)
             e == DigitRunEnd(s, i + 1)
         IN Some([first |-> SubSeq(s, i + 1, e),
                  second |-> SubSeq(s, e + 2, DigitRunEnd(s, e + 2))])
    ELSE None

----------------------------------------------------------------------------
(* Requests *)

NoForm == [malformed |-> FALSE, image |-> None, width |-> None, height |-> None,
           timestamp |-> None, sha256 |-> None]

NoRequest == [method |-> "NONE", key |-> <<>>, download |-> None, range |-> None,
              ifNoneMatch |-> None, userAgent |-> None, authorization |-> None,
              form |-> NoForm]

\* a multipart field that holds a file, and one that holds the empty string
File(name, type, bytes) == [isFile |-> TRUE, name |-> name, type |-> type, bytes |-> bytes]
EmptyField == [isFile |-> FALSE, name |-> <<>>, type |-> "", bytes |-> <<>>]

\* c.req.url: the path and the query
Url(r) == [key |-> r.key, download |-> r.download]

----------------------------------------------------------------------------
(* Serving: GET|HEAD /:key of index.ts (first version) and part_000 *)

NoCall == [op |-> "none", key |-> <<>>, range |-> None, threw |-> FALSE,
           found |-> FALSE, bytes |-> <<>>, contentType |-> ""]

\* a weak comparison: W/"tag" matches "tag" too
ConditionalMatchWeak(ifNoneMatch, etag) ==
    Truthy(ifNoneMatch) /\ (ifNoneMatch[1] = etag \/ ifNoneMatch[1] = <<"W", "/">> \o etag)

\* ifNoneMatch && ifNoneMatch === etag
ConditionalMatch(ifNoneMatch, etag) == Truthy(ifNoneMatch) /\ ifNoneMatch[1] = etag

\* object.httpEtag || object.etag
EtagOf(object) == IF object.httpEtag # <<>> THEN object.httpEtag ELSE object.etag

\* object.httpMetadata?.contentType || getContentType(key)
ContentTypeOf(object, key) ==
    IF object.contentType # "" THEN object.contentType ELSE GetContentType(key)

\* the pattern with its dash optional, /bytes=(\d+)-?(\d*)/: "bytes=1" is a range too
ParsedRangeDashOptional(range) ==
    IF ~Truthy(range) THEN None
    ELSE IF RangeMatch(range[1]) # None
    THEN LET m == RangeMatch(range[1])[1]
         IN Some([start |-> ParseInt(m.first),
                  end |-> IF m.second # <<>> THEN Some(ParseInt(m.second)) ELSE None])
    ELSE IF \E i \in 1..Len(range[1]) :
                range[1][i] = "bytes=" /\ DigitRunEnd(range[1], i + 1) >= i + 1
    THEN LET i == CHOOSE k \in 1..Len(range[1]) :
                      range[1][k] = "bytes=" /\ DigitRunEnd(range[1], k + 1) >= k + 1
         IN Some([start |-> ParseInt(SubSeq(range[1], i + 1, DigitRunEnd(range[1], i + 1))),
                  end |-> None])
    ELSE None

\* start and end of a Range header that matches the pattern, or null
ParsedRange(range) ==
    IF ~Truthy(range) \/ RangeMatch(range[1]) = None THEN None
    ELSE LET m == RangeMatch(range[1])[1]
         IN Some([start |-> ParseInt(m.first),
                  end |-> IF m.second # <<>> THEN Some(ParseInt(m.second)) ELSE None])

\* a JavaScript number that is neither undefined nor 0
TruthyNumber(n) == n # None /\ n[1] # 0

\* { offset: start, length: end ? end - start + 1 : undefined }
FetchRange(pr) ==
    [offset |-> pr.start,
     length |-> IF TruthyNumber(pr.end) THEN Some(pr.end[1] - pr.start + 1) ELSE None]

\* `bytes ${start}-${end || totalSize - 1}/${totalSize}`
ContentRange(pr, totalSize) ==
    <<"bytes ">> \o Dec(pr.start) \o <<"-">>
        \o Dec(IF TruthyNumber(pr.end) THEN pr.end[1] ELSE totalSize - 1)
        \o <<"/">> \o Dec(totalSize)

\* the bucket call the handler makes
ServeCallIndex(r) ==
    IF r.method = "HEAD" THEN [NoCall EXCEPT !.op = "head", !.key = r.key]
    ELSE [NoCall EXCEPT !.op = "get", !.key = r.key,
                        !.range = IF ParsedRange(r.range) = None THEN None
                                  ELSE Some(FetchRange(ParsedRange(r.range)[1]))]

\* `${contentDisposition}; filename="${filename}"; filename*=UTF-8''${encodedFilename}`
ContentDisposition(r) ==
    LET forceDownload == r.download = Some("true")
        isScreenshot == Includes(r.key, SCREENSHOT \o <<"_">>)
        lastSegment == Last(Split(r.key, "/"))
        filename == IF lastSegment # <<>> THEN lastSegment ELSE <<"download">>
    IN [disposition |-> IF forceDownload \/ (isScreenshot /\ IsMobile(r.userAgent))
                        THEN "attachment" ELSE "inline",
        filename |-> filename,
        filenameStar |-> EncodeURIComponent(filename)]

\* the HEAD branch, given what head() returned
HeadIndex(r, object) ==
    IF object = None THEN NotFound("index")
    ELSE IF ConditionalMatch(r.ifNoneMatch, EtagOf(object[1]))
    THEN Response(304, NoHeaders, NoBody)
    ELSE Response(200,
            "Content-Type" :> ContentTypeOf(object[1], r.key)
            @@ "Content-Length" :> Dec(object[1].size)
            @@ "Accept-Ranges" :> "bytes"
            @@ "ETag" :> EtagOf(object[1])
            @@ "Last-Modified" :> ToUTCString(object[1].uploaded)
            @@ "Cache-Control" :> GetCacheControl(r.key),
            NoBody)

\* a GET that answers a range it cannot serve with 416
GetIndexUnsatisfiable(r, object) ==
    LET pr == ParsedRange(r.range)
        ranged == pr # None /\ object # None
        status == IF ranged THEN 206 ELSE 200
    IN IF object = None
       THEN (IF pr # None THEN Json(416, "Range Not Satisfiable", None, None)
             ELSE NotFound("index"))
       ELSE IF ConditionalMatch(r.ifNoneMatch, EtagOf(object[1]))
       THEN Response(304, NoHeaders, NoBody)
       ELSE IF ~object[1].hasBody THEN NotFound("index")
       ELSE Response(status,
               "Content-Type" :> ContentTypeOf(object[1], r.key)
               @@ "Content-Disposition" :> ContentDisposition(r)
               @@ "Cache-Control" :> GetCacheControl(r.key)
               @@ "ETag" :> EtagOf(object[1])
               @@ "Last-Modified" :> ToUTCString(object[1].uploaded)
               @@ "Accept-Ranges" :> "bytes"
               @@ "X-Content-Type-Options" :> "nosniff"
               @@ (IF ranged THEN "Content-Range" :> ContentRange(pr[1], object[1].size)
                   ELSE NoHeaders),
               BytesBody(StreamToArrayBuffer(object[1].body)))

\* the GET branch, given what get() returned
GetIndex(r, object) ==
    LET pr == ParsedRange(r.range)
        ranged == pr # None /\ object # None
        status == IF ranged THEN 206 ELSE 200
    IN IF object = None THEN NotFound("index")
       ELSE IF ConditionalMatch(r.ifNoneMatch, EtagOf(object[1]))
       THEN Response(304, NoHeaders, NoBody)
       ELSE IF ~object[1].hasBody THEN NotFound("index")
       ELSE Response(status,
               "Content-Type" :> ContentTypeOf(object[1], r.key)
               @@ "Content-Disposition" :> ContentDisposition(r)
               @@ "Cache-Control" :> GetCacheControl(r.key)
               @@ "ETag" :> EtagOf(object[1])
               @@ "Last-Modified" :> ToUTCString(object[1].uploaded)
               @@ "Accept-Ranges" :> "bytes"
               @@ "X-Content-Type-Options" :> "nosniff"
               @@ (IF ranged THEN "Content-Range" :> ContentRange(pr[1], object[1].size)
                   ELSE NoHeaders),
               BytesBody(StreamToArrayBuffer(object[1].body)))

\* the handler: try { ... } catch { 500 }
ServeIndex(r, threw, object) ==
    IF threw THEN Json(500, "Internal Server Error", None, None)
    ELSE IF r.method = "HEAD" THEN HeadIndex(r, object)
    ELSE GetIndex(r, object)

----------------------------------------------------------------------------
(* Serving: app.all('/:key') of index.ts (second version) *)

\* const maxAge = 60 * 60 * 24 * 30
maxAge == 60 * 60 * 24 * 30

\* the HEAD branch: try { head() ... } catch { notFound }
HeadLegacy(r, threw, object) ==
    IF threw \/ object = None THEN NotFound("legacy")
    ELSE Response(200,
            SetCorsHeaders(
                "Content-Type" :> (IF object[1].contentType # "" THEN object[1].contentType
                                   ELSE "application/octet-stream")
                @@ "Content-Length" :> Dec(object[1].size)
                @@ "ETag" :> EtagOf(object[1])
                @@ "Last-Modified" :> ToUTCString(object[1].uploaded)),
            NoBody)

\* the GET branch past the cache: try { get() ... } catch { notFound }
GetLegacy(r, threw, object) ==
    IF threw \/ object = None THEN NotFound("legacy")
    ELSE Response(200,
            SetCorsHeaders(
                "Content-Type" :> (IF object[1].contentType # "" THEN object[1].contentType
                                   ELSE "application/octet-stream")
                @@ "Cache-Control" :>
                       CacheControl(IF Includes(r.key, SCREENSHOT \o <<"_">>) THEN 3600 ELSE maxAge,
                                    FALSE)
                @@ "Content-Disposition" :> ContentDisposition(r)
                @@ "X-Content-Type-Options" :> "nosniff"
                @@ "ETag" :> EtagOf(object[1])
                @@ "Last-Modified" :> ToUTCString(object[1].uploaded)),
            BytesBody(StreamToArrayBuffer(object[1].body)))

\* a cache hit: the cached response with the CORS headers set again
FromCache(cached) == Response(cached.status, SetCorsHeaders(cached.headers), cached.body)

\* the bucket call the handler makes when the cache has nothing
ServeCallLegacy(r) ==
    [NoCall EXCEPT !.op = IF r.method = "HEAD" THEN "head" ELSE "get", !.key = r.key]

----------------------------------------------------------------------------
(* The framework around a handler *)

\* Hono answers a HEAD request with the handler's status and headers and no
\* body; the legacy version's app.use('*') sets the CORS headers on every response
Dispatch(v, r, response) ==
    [response EXCEPT
        !.body = IF r.method = "HEAD" THEN NoBody ELSE @,
        !.headers = IF v = "legacy" THEN SetCorsHeaders(@) ELSE @]

----------------------------------------------------------------------------
(* Uploading: PUT /upload *)

\* env.USER and env.PASS, as the Authorization header that carries them
Credentials == "Basic dXNlcjpwYXNz"

\* basicAuth({ username, password }): next() runs only for the right credentials
BasicAuthOk(r) == r.authorization = Some(Credentials)

\* what basicAuth throws otherwise: an HTTPException that carries a 401 response
Unauthorized ==
    [message |-> "Unauthorized", stack |-> "at basicAuth",
     response |-> Some(Response(401, "WWW-Authenticate" :> "Basic realm=\"Secure Area\"",
                                TextBody(<<"Unauthorized">>)))]

\* nameParts.pop() || 'png'
Extension(name) ==
    IF Last(Split(name, ".")) # <<>> THEN Last(Split(name, ".")) ELSE PNG

\* nameParts.join('.') after the pop
Basename(name) == Join(Front(Split(name, ".")), <<".">>)

\* (await sha256(file)).substring(0, 8)
Hash8(bytes) == Substring(Sha256Hex(bytes), 0, 8)

\* options that are on whenever the field is sent, whatever it says
SuffixedKeyAnyValue(name, bytes, form, t, random) ==
    LET parts == <<Basename(name)>>
                 \o (IF form.sha256 # None THEN <<Hash8(bytes)>> ELSE <<>>)
                 \o (IF form.timestamp # None THEN <<Dec(t) \o <<"_">> \o random>> ELSE <<>>)
    IN IF form.sha256 # None \/ form.timestamp # None
       THEN Join(parts, <<"_">>) \o <<".">> \o Extension(name)
       ELSE name

\* the key before the dimensions: the name, or basename_hash_timestamp_random.extension
SuffixedKey(name, bytes, form, t, random) ==
    LET useTimestamp == form.timestamp = Some("true")
        useSha256 == form.sha256 = Some("true")
        parts == <<Basename(name)>>
                 \o (IF useSha256 THEN <<Hash8(bytes)>> ELSE <<>>)
                 \o (IF useTimestamp THEN <<Dec(t) \o <<"_">> \o random>> ELSE <<>>)
    IN IF useSha256 \/ useTimestamp
       THEN Join(parts, <<"_">>) \o <<".">> \o Extension(name)
       ELSE name

\* if (data.width && data.height) key = `${base}_${width}x${height}.${ext}`
WithDimensions(key, width, height) ==
    IF Truthy(width) /\ Truthy(height)
    THEN Join(Front(Split(key, ".")), <<".">>) \o <<"_">> \o width[1] \o <<"x">> \o height[1]
             \o <<".">> \o Last(Split(key, "."))
    ELSE key

\* the storage key of an upload
DeriveKey(name, bytes, form, t, random) ==
    WithDimensions(SuffixedKey(name, bytes, form, t, random), form.width, form.height)

PutCall(key, file, contentType, threw) ==
    [NoCall EXCEPT !.op = "put", !.key = key, !.threw = threw,
                   !.bytes = file.bytes, !.contentType = contentType]

\* data.image is no File: file.type or file.name.split throws
IsFile(image) == image # None /\ image[1].isFile

\* the upload of index.ts (both versions): the response and the bucket call
UploadIndex(v, r, t, random, putThrows) ==
    IF ~BasicAuthOk(r) THEN [resp |-> OnError(v, Unauthorized), call |-> NoCall]
    ELSE IF r.form.malformed \/ ~IsFile(r.form.image)
    THEN [resp |-> OnError(v, TypeError), call |-> NoCall]
    ELSE LET file == r.form.image[1]
             key == DeriveKey(file.name, file.bytes, r.form, t, random)
         IN IF putThrows
            THEN [resp |-> OnError(v, StoreError), call |-> PutCall(key, file, file.type, TRUE)]
            ELSE [resp |-> Text(200, key), call |-> PutCall(key, file, file.type, FALSE)]

\* !file
Falsy(image) == image = None \/ (~image[1].isFile /\ image[1].name = <<>>)

\* the upload of part_000: every failure is caught and answered in place
UploadDebug(r, t, putThrows) ==
    IF ~BasicAuthOk(r)
    THEN [resp |-> Json(401, "Auth failed", Some(Unauthorized.message), None), call |-> NoCall]
    ELSE IF r.form.malformed
    THEN [resp |-> Json(400, "ParseBody failed", Some(TypeError.message), None), call |-> NoCall]
    ELSE IF Falsy(r.form.image)
    THEN [resp |-> Json(400, "No image file in request", None, None), call |-> NoCall]
    ELSE LET file == r.form.image[1]
             key == <<"t", "e", "s", "t", "_">> \o Dec(t) \o <<"_">> \o file.name
             contentType == IF file.type # "" THEN file.type ELSE "application/octet-stream"
         IN IF putThrows
            THEN [resp |-> Json(500, "R2 upload failed", Some(StoreError.message), None),
                  call |-> PutCall(key, file, contentType, TRUE)]
            ELSE [resp |-> Text(200, key), call |-> PutCall(key, file, contentType, FALSE)]

Upload(v, r, t, random, putThrows) ==
    IF v = "debug" THEN UploadDebug(r, t, putThrows)
    ELSE UploadIndex(v, r, t, random, putThrows)

----------------------------------------------------------------------------
(* What clients send *)

Variants == {"index", "legacy", "debug"}

Bodies == UNION {[1..n -> Bytes] : n \in 0..MaxBody}
ContentTypes == {"image/png", ""}

CatPng == <<"c", ".", "p", "n", "g">>
ScreenshotPng == SCREENSHOT \o <<".", "p", "n", "g">>
FileNames == {CatPng, <<"c">>, <<"x", ".">>, ScreenshotPng}
MissingKey == <<"n", "o", ".", "p", "n", "g">>

\* Math.random().toString(36).substring(2, 8): up to six base-36 characters
RandomStrings == {<<"k", "3", "x", "9", "a", "b">>, <<"i">>}

Authorizations == {None, Some(Credentials), Some("Basic d3Jvbmc6d3Jvbmc=")}
Flags == {None, Some("true"), Some("false")}

Forms ==
    [malformed : {FALSE},
     image : {None, Some(EmptyField)}
             \cup {Some(File(n, t, b)) : n \in FileNames, t \in ContentTypes, b \in Bodies},
     width : {None, Some(<<>>), Some(<<"2">>)},
     height : {None, Some(<<"3">>)},
     timestamp : Flags,
     sha256 : Flags]
    \cup {[NoForm EXCEPT !.malformed = TRUE]}

UploadRequest(authorization, form) ==
    [NoRequest EXCEPT !.method = "PUT", !.key = <<"u", "p", "l", "o", "a", "d">>,
                      !.authorization = authorization, !.form = form]

UploadRequests == {UploadRequest(a, f) : a \in Authorizations, f \in Forms}

ServeRequest(method, key, range, ifNoneMatch, download, userAgent) ==
    [NoRequest EXCEPT !.method = method, !.key = key, !.range = range,
                      !.ifNoneMatch = ifNoneMatch, !.download = download,
                      !.userAgent = userAgent]

\* the keys clients ask for: every stored one and one that is not stored
KeysOf(s) == DOMAIN s \cup {MissingKey}

\* the validators clients send: none, the stored object's tag in its forms, others
ValidatorsOf(s, key) ==
    {None, Some(<<>>), Some(<<"*">>), Some(<<"\"">> \o Md5Hex(<<0>>) \o <<"\"">>)}
    \cup (IF key \in DOMAIN s
          THEN {Some(<<"\"">> \o s[key].etag \o <<"\"">>), Some(s[key].etag),
                Some(<<"W", "/", "\"">> \o s[key].etag \o <<"\"">>)}
          ELSE {})

BytesRange(first, second) == Some(<<"bytes=">> \o first \o <<"-">> \o second)
RangeSamples ==
    {None, Some(<<>>),
     BytesRange(<<"0">>, <<"0">>), BytesRange(<<"0">>, <<"1">>), BytesRange(<<"1">>, <<>>),
     BytesRange(<<"1">>, <<"0">>), BytesRange(<<"5">>, <<>>),
     Some(<<"i", "t", "e", "m", "s", "=", "0", "-", "5">>)}

\* every Range header of up to MaxRange elements
RangeAlphabet == {"bytes=", "0", "1", "-"}
AllRanges == {None} \cup {Some(h) : h \in UNION {[1..n -> RangeAlphabet] : n \in 0..MaxRange}}

UserAgents == {None, Some(<<"Mozilla", "iPhone">>), Some(<<"Mozilla", "X11">>)}
Downloads == {None, Some("true")}

\* the bucket after the upload of one file
Seed(name, form, type, bytes) ==
    R2Put(EmptyStore, DeriveKey(name, bytes, form, 0, <<"i">>), bytes, type, 0)

----------------------------------------------------------------------------
(* Actions *)

\* a client sends one of `requests`
Receive(requests) ==
    /\ phase = "idle"
    /\ req' \in requests
    /\ phase' = "pending"
    /\ UNCHANGED <<variant, store, cache, waiting, now, resp, call>>

\* PUT /upload runs to its response
HandleUpload ==
    /\ phase = "pending"
    /\ req.method = "PUT"
    /\ \E random \in RandomStrings, putThrows \in BOOLEAN :
        LET u == Upload(variant, req, now, random, putThrows)
            puts == u.call.op = "put" /\ ~u.call.threw
        IN /\ puts /\ u.call.key \notin DOMAIN store => Cardinality(DOMAIN store) < MaxObjects
           /\ resp' = Dispatch(variant, req, u.resp)
           /\ call' = u.call
           /\ store' = IF puts
                       THEN R2Put(store, u.call.key, u.call.bytes, u.call.contentType, now)
                       ELSE store
    /\ phase' = "done"
    /\ UNCHANGED <<variant, cache, waiting, now, req>>

\* GET|HEAD /:key runs to its response
HandleServe ==
    /\ phase = "pending"
    /\ req.method \in {"GET", "HEAD"}
    /\ \E threw \in BOOLEAN :
        LET hit == variant = "legacy" /\ req.method = "GET" /\ Url(req) \in DOMAIN cache
            made == IF variant = "legacy" THEN ServeCallLegacy(req) ELSE ServeCallIndex(req)
            object == IF threw THEN None
                      ELSE IF made.op = "head" THEN R2Head(store, made.key)
                      ELSE R2Get(store, made.key, made.range)
            handled == IF hit THEN FromCache(cache[Url(req)])
                       ELSE IF variant = "legacy" /\ req.method = "HEAD"
                       THEN HeadLegacy(req, threw, object)
                       ELSE IF variant = "legacy" THEN GetLegacy(req, threw, object)
                       ELSE ServeIndex(req, threw, object)
            caches == variant = "legacy" /\ req.method = "GET" /\ ~hit /\ object # None
        IN /\ hit => ~threw
           /\ caches => Len(waiting) < MaxWaiting
           /\ resp' = Dispatch(variant, req, handled)
           /\ call' = IF hit THEN NoCall
                      ELSE [made EXCEPT !.threw = threw, !.found = object # None]
           /\ waiting' = IF caches
                         THEN Append(waiting, [url |-> Url(req), response |-> handled])
                         ELSE waiting
    /\ phase' = "done"
    /\ UNCHANGED <<variant, store, cache, now, req>>

\* the response is sent; the request's context is gone
Complete ==
    /\ phase = "done"
    /\ phase' = "idle"
    /\ req' = NoRequest
    /\ resp' = NoResponse
    /\ call' = NoCall
    /\ UNCHANGED <<variant, store, cache, waiting, now>>

\* legacy: a cache write handed to waitUntil completes
CachePut ==
    /\ waiting # <<>>
    /\ cache' = (Head(waiting).url :> Head(waiting).response) @@ cache
    /\ waiting' = Tail(waiting)
    /\ UNCHANGED <<variant, store, now, phase, req, resp, call>>

\* time passes
Tick ==
    /\ phase = "idle"
    /\ now < MaxClock
    /\ now' = now + 1
    /\ UNCHANGED <<variant, store, cache, waiting, phase, req, resp, call>>

----------------------------------------------------------------------------
(* Specifications *)

Fresh ==
    /\ variant \in Variants
    /\ cache = [u \in {} |-> u]
    /\ waiting = <<>>
    /\ resp = NoResponse
    /\ call = NoCall

\* The worker from a first deployment on, one request at a time.
SpecRequests ==
    {UploadRequest(a, [NoForm EXCEPT !.image = i, !.sha256 = f]) :
        a \in {Some(Credentials), Some("Basic d3Jvbmc6d3Jvbmc=")},
        i \in {None} \cup {Some(File(n, "image/png", b)) : n \in {CatPng, ScreenshotPng}, b \in Bodies},
        f \in {None, Some("true")}}
    \cup {ServeRequest(m, k, r, v, None, None) :
        m \in {"GET", "HEAD"}, k \in KeysOf(store),
        r \in {None, BytesRange(<<"0">>, <<"0">>)},
        v \in {None} \cup {Some(<<"\"">> \o store[j].etag \o <<"\"">>) : j \in DOMAIN store}}

Init ==
    /\ Fresh
    /\ store = EmptyStore
    /\ now = 0
    /\ phase = "idle"
    /\ req = NoRequest

Next ==
    \/ Receive(SpecRequests)
    \/ HandleUpload
    \/ HandleServe
    \/ Complete
    \/ CachePut
    \/ Tick

Spec == Init /\ [][Next]_vars

\* One upload, of every form, into an empty bucket.
InitUpload ==
    /\ Fresh
    /\ store = EmptyStore
    /\ now \in 0..MaxClock
    /\ phase = "pending"
    /\ req \in UploadRequests

SpecUpload == InitUpload /\ [][HandleUpload]_vars

\* One GET or HEAD against a bucket that holds one uploaded file, or none.
SeedStores ==
    {EmptyStore}
    \cup {Seed(CatPng, NoForm, t, b) : t \in ContentTypes, b \in Bodies}
    \cup {Seed(ScreenshotPng, [NoForm EXCEPT !.sha256 = Some("true")], t, b) :
            t \in ContentTypes, b \in Bodies}

InitServe ==
    /\ Fresh
    /\ store \in SeedStores
    /\ now = 0
    /\ phase = "pending"
    /\ req \in UNION {
            {ServeRequest("GET", k, r, v, d, u) :
                r \in RangeSamples, v \in ValidatorsOf(store, k),
                d \in Downloads, u \in UserAgents}
            \cup {ServeRequest("HEAD", k, r, v, None, None) :
                r \in {None, BytesRange(<<"0">>, <<"1">>)}, v \in ValidatorsOf(store, k)} :
            k \in KeysOf(store)}

SpecServe == InitServe /\ [][HandleServe]_vars

\* One GET with any Range header of up to MaxRange elements.
InitRange ==
    /\ Fresh
    /\ variant # "legacy"
    /\ store \in {EmptyStore} \cup {Seed(CatPng, NoForm, "image/png", b) : b \in Bodies}
    /\ now = 0
    /\ phase = "pending"
    /\ req \in {ServeRequest("GET", k, r, v, None, None) :
                    k \in KeysOf(store), r \in AllRanges,
                    v \in {None} \cup {Some(<<"\"">> \o store[j].etag \o <<"\"">>) : j \in DOMAIN store}}

SpecRange == InitRange /\ [][HandleServe]_vars

----------------------------------------------------------------------------
(* Properties *)

Done == phase = "done"
Served == Done /\ req.method \in {"GET", "HEAD"}
Uploaded == Done /\ req.method = "PUT"

\* the handler of index.ts lines 106-225, which part_000 repeats (lines 135-254)
RangeAware == variant \in {"index", "debug"}

\* the entity tag of the stored object, as HTTP writes it
EntityTag(key) == <<"\"">> \o store[key].etag \o <<"\"">>
ValidatorMatches == req.ifNoneMatch # None /\ req.ifNoneMatch[1] = EntityTag(req.key)

\* the Range header holds bytes=<digits>-<optional digits>
HasRangeForm == req.range # None /\ RangeMatch(req.range[1]) # None
RangeStart == ParseInt(RangeMatch(req.range[1])[1].first)
RangeEndGiven == RangeMatch(req.range[1])[1].second # <<>>
RangeEnd == ParseInt(RangeMatch(req.range[1])[1].second)

\* C1: a GET of an existing object of size N with Range bytes=<start>-<end>?,
\* 0 <= start <= end < N, that the validator does not turn into a 304, is
\* answered 206; the bucket is asked for offset start and exactly end-start+1
\* bytes (to the end when end is omitted); Content-Range is
\* "bytes start-E/N", E being end, or N-1 when end is omitted.
C1_RangeResponse ==
    (/\ Done /\ RangeAware /\ req.method = "GET" /\ call.found
     /\ HasRangeForm
     /\ ~ValidatorMatches
     /\ RangeStart < Len(store[req.key].body)
     /\ RangeEndGiven => RangeStart <= RangeEnd /\ RangeEnd < Len(store[req.key].body))
    => LET N == Len(store[req.key].body)
           E == IF RangeEndGiven THEN RangeEnd ELSE N - 1
       IN /\ resp.status = 206
          /\ call.range = Some([offset |-> RangeStart,
                                length |-> IF RangeEndGiven
                                           THEN Some(RangeEnd - RangeStart + 1) ELSE None])
          /\ Has(resp, "Content-Range")
          /\ resp.headers["Content-Range"]
                = <<"bytes ">> \o Dec(RangeStart) \o <<"-">> \o Dec(E) \o <<"/">> \o Dec(N)

C3_MalformedRange ==
    (Done /\ RangeAware /\ req.method = "GET" /\ call.found
     /\ req.range # None /\ ~HasRangeForm)
    => /\ call.op = "get" /\ call.range = None
       /\ ~Has(resp, "Content-Range")
       /\ resp.status = IF ValidatorMatches THEN 304 ELSE 200
       /\ resp.status # 304 => resp.body = BytesBody(store[req.key].body)

C3_Witness ==
    /\ Done /\ RangeAware /\ req.method = "GET" /\ call.found
    /\ req.range # None /\ req.range[1] # <<>> /\ ~HasRangeForm
    /\ \E i \in 1..Len(req.range[1]) : req.range[1][i] = "bytes="
    /\ resp.status = 200

\* C4: a GET or HEAD for which the bucket returns nothing is answered 404,
\* whatever the Range and If-None-Match headers; the HEAD's 404 has no body.
C4_NotFound ==
    (Served /\ call.op \in {"get", "head"} /\ ~call.threw /\ ~call.found)
    => /\ resp.status = 404
       /\ req.method = "HEAD" => resp.body = NoBody

C4_Witness ==
    /\ Served /\ call.op = "get" /\ ~call.threw /\ ~call.found
    /\ HasRangeForm
    /\ req.ifNoneMatch # None
    /\ resp.status = 404
\* the upload handler of index.ts (both versions); part_000 names every
\* object test_<milliseconds>_<filename>
DerivesKey == variant \in {"index", "legacy"}

Enabled(flag) == flag = Some("true")
TheFile == req.form.image[1]
PutMade == Uploaded /\ call.op = "put"
BothDimensions == Truthy(req.form.width) /\ Truthy(req.form.height)

C6_DefaultExtension ==
    (PutMade /\ DerivesKey
     /\ ~Includes(TheFile.name, <<".">>)
     /\ (Enabled(req.form.sha256) \/ Enabled(req.form.timestamp)))
    => /\ Last(Split(call.key, ".")) = <<"p", "n", "g">>
       /\ Len(call.key) > Len(TheFile.name)
       /\ SubSeq(call.key, 1, Len(TheFile.name)) = TheFile.name

\* C7: the bucket's put is invoked only for requests whose Basic credentials
\* are the configured ones; an upload with missing or wrong credentials is
\* answered 401 and writes nothing; GET and HEAD ask for no credentials.
C7_AuthGatesUpload ==
    /\ PutMade => BasicAuthOk(req)
    /\ (Uploaded /\ ~BasicAuthOk(req)) => resp.status = 401 /\ call.op = "none"
    /\ (Served /\ req.authorization = None) => resp.status # 401

\* C8: an authenticated upload whose form has no image field, or an empty
\* one, is answered 400 and the bucket's put is not invoked.
C8_MissingImage ==
    (Uploaded /\ BasicAuthOk(req) /\ ~req.form.malformed
     /\ req.form.image \in {None, Some(EmptyField)})
    => resp.status = 400 /\ call.op = "none"

\* what a body can carry of the exception
Leaks(body) ==
    \/ body.details # None
    \/ body.stack # None
    \/ \E i \in 1..Len(body.data) : body.data[i] \in ErrorMessages \cup ErrorStacks

\* C9: when the bucket's put, get or head throws, the answer is a 500 whose
\* body carries nothing of the exception's message or stack.
C9_StoreFailure ==
    (Done /\ call.op # "none" /\ call.threw)
    => resp.status = 500 /\ ~Leaks(resp.body)

\* basename "_" 8 hex digits "." extension
HashedKeyOf(name, bytes) ==
    Basename(name) \o <<"_">> \o SubSeq(Sha256Hex(bytes), 1, 8) \o <<".">> \o Extension(name)

HashedForm(key) ==
    \E i \in 1..Len(key) :
        /\ key[i] = "_"
        /\ i + 10 <= Len(key)
        /\ \A j \in (i + 1)..(i + 8) : key[j] \in HexChars
        /\ key[i + 9] = "."
        /\ \A j \in (i + 10)..Len(key) : key[j] # "."

\* the key was stored by an upload of these bytes with hashing on
StoredHashed(key) ==
    /\ key \in DOMAIN store
    /\ \E n \in FileNames : Includes(n, <<".">>) /\ key = HashedKeyOf(n, store[key].body)

\* C10: a successful upload with hashing on, the timestamp off and no
\* dimensions answers with the key <basename>_<8 hex digits>.<extension>;
\* a later GET of that key without Range and If-None-Match is answered 200
\* with the uploaded bytes, and "public, max-age=31536000, immutable" unless
\* the key contains "screenshot_".
C10_UploadThenGet ==
    /\ (PutMade /\ DerivesKey /\ ~call.threw
        /\ Enabled(req.form.sha256) /\ ~Enabled(req.form.timestamp)
        /\ ~BothDimensions /\ Includes(TheFile.name, <<".">>))
       => /\ resp.status = 200
          /\ resp.body = TextBody(HashedKeyOf(TheFile.name, TheFile.bytes))
          /\ HashedForm(resp.body.data)
          /\ store[resp.body.data].body = TheFile.bytes
    /\ (Done /\ DerivesKey /\ req.method = "GET" /\ StoredHashed(req.key)
        /\ req.range = None /\ req.ifNoneMatch = None /\ ~call.threw)
       => /\ resp.status = 200
          /\ resp.body = BytesBody(store[req.key].body)
          /\ ~Includes(req.key, SCREENSHOT \o <<"_">>) =>
                /\ Has(resp, "Cache-Control")
                /\ resp.headers["Cache-Control"]
                      = <<"public, max-age=">> \o Dec(31536000) \o <<", immutable">>
\* C11: every 206 of the GET handler carries a Content-Range
\* "bytes start-end/totalSize" with 0 <= start <= end < totalSize, whatever
\* the matching Range header and the object's size: an end below the start,
\* an end or a start at or beyond the size included.
C11_ResolvedRange ==
    (Done /\ RangeAware /\ req.method = "GET" /\ resp.status = 206)
    => LET N == Len(store[req.key].body)
       IN /\ Has(resp, "Content-Range")
          /\ \E start \in 0..(N - 1), end \in 0..(N - 1) :
                /\ start <= end
                /\ resp.headers["Content-Range"]
                      = <<"bytes ">> \o Dec(start) \o <<"-">> \o Dec(end)
                            \o <<"/">> \o Dec(N)
\* C12: every 200 or 206 answer to a GET or HEAD of an existing object
\* carries ETag equal to the object's entity tag, Last-Modified,
\* "Accept-Ranges: bytes" and "X-Content-Type-Options: nosniff"; it carries
\* Content-Range exactly when a range was resolved, which is when the status
\* is 206; the answer to a HEAD has no body.
C12_SuccessHeaders ==
    (Served /\ RangeAware /\ call.found /\ resp.status \in {200, 206})
    => /\ Has(resp, "ETag") /\ resp.headers["ETag"] = EntityTag(req.key)
       /\ Has(resp, "Last-Modified")
       /\ resp.headers["Last-Modified"] = ToUTCString(store[req.key].uploaded)
       /\ Has(resp, "Accept-Ranges") /\ resp.headers["Accept-Ranges"] = "bytes"
       /\ Has(resp, "X-Content-Type-Options")
       /\ resp.headers["X-Content-Type-Options"] = "nosniff"
       /\ Has(resp, "Content-Range") <=> resp.status = 206
       /\ resp.status = 206 <=> call.range # None
       /\ req.method = "HEAD" => resp.body = NoBody
\* the answer computed from the request and the bucket alone
Computed(v, r, s, threw) ==
    LET made == IF v = "legacy" THEN ServeCallLegacy(r) ELSE ServeCallIndex(r)
        object == IF threw THEN None
                  ELSE IF made.op = "head" THEN R2Head(s, made.key)
                  ELSE R2Get(s, made.key, made.range)
    IN Dispatch(v, r, IF v = "legacy" /\ r.method = "HEAD" THEN HeadLegacy(r, threw, object)
                      ELSE IF v = "legacy" THEN GetLegacy(r, threw, object)
                      ELSE ServeIndex(r, threw, object))

\* C13: requests share nothing but the bucket: the answer to a GET or HEAD
\* is the one its own method, key, headers and query give with the bucket's
\* contents at the time of its one bucket call (the call succeeding or
\* throwing), so a GET after an overwriting upload carries the new bytes and
\* metadata, never an answer computed for an earlier request.
C13_NoSharedState ==
    Served => \E threw \in BOOLEAN : resp = Computed(variant, req, store, threw)

====
